---- MODULE Spec2Model ----
(***************************************************************************)
(* MarkMate (src/main.py): a Textual application with an editor            *)
(* (EditorPane, a TextArea) and a markdown preview (ViewerPane wrapping a  *)
(* Markdown widget), wired by MainApp.                                     *)
(*                                                                         *)
(* What the model keeps of the framework:                                  *)
(*  - TextArea holds its document in `text`; EditorPane is constructed     *)
(*    with no text (main.py:181), so `text` starts empty.  `value` is an   *)
(*    attribute that only EditorPane.on_mount assigns (main.py:69); no     *)
(*    line of main.py assigns it again, and an edit of the TextArea        *)
(*    changes `text`, not `value`.                                         *)
(*  - post_message appends to a FIFO message queue; MainApp handles one    *)
(*    Changed message per step.                                            *)
(*  - Markdown.update(text) returns an awaitable that main.py:124 does not *)
(*    await: the call starts a render that completes in a later step, and  *)
(*    renders started by different calls complete in any order.  A         *)
(*    completed render replaces the displayed document as a whole.         *)
(*  - main.py has no try/except: an exception raised inside                *)
(*    Markdown.update leaves on_editor_pane_changed / on_mount unhandled   *)
(*    (the application stops); a render that fails after the call has      *)
(*    returned is dropped with nothing reported.                           *)
(***************************************************************************)
EXTENDS Naturals, Integers, Sequences, FiniteSets, TLC

\* ---------------------------------------------------------------- bounds
MaxEdits == 3
MaxSaves == 2
MaxFailures == 1

\* -------------------------------------------------------------- documents
\* EditorPane.DEFAULT_MARKDOWN (main.py:38-58), abbreviated to its heading.
DEFAULT_MARKDOWN == "# Welcome to MarkMate"

\* The text of a TextArea built without a text argument, and of Markdown("").
EmptyText == ""

\* `value` before EditorPane.on_mount has assigned it (no such attribute).
NoValue == "<unset>"

\* The documents a user can produce by editing.
Docs == {EmptyText, DEFAULT_MARKDOWN, "# A", "# B"}

\* The Markdown widget's rendering of a document: the external renderer,
\* kept abstract (a display form of the document, distinct from its source).
Render(d) == [rendered |-> d]

\* The save confirmation of EditorPane.action_save.
SaveNotification == [title |-> "Save", message |-> "Document saved!"]

VARIABLES
  text,           \* TextArea content of the editor (what the user sees and edits)
  value,          \* EditorPane.value attribute
  editorMounted,  \* EditorPane.on_mount has run
  appMounted,     \* MainApp.on_mount has run
  queue,          \* Changed messages posted and not yet handled (FIFO)
  inflight,       \* renders started by Markdown.update and not yet completed
  preview,        \* what the Markdown widget displays, and the request it came from
  notifications,  \* notifications shown by notify()
  status,         \* "running" | "crashed" (unhandled exception) | "quit"
  edits,          \* history: the editor content after each user edit
  emitted,        \* history: Changed messages posted, in order
  handled,        \* history: Changed messages handled by MainApp, in order
  updates,        \* history: calls of ViewerPane.update_content, in order
  failed,         \* history: requests whose render failed
  applied,        \* history: renders applied, each with the newest request then
  saves,          \* history: invocations of the save action
  mountOrder      \* history: the on_mount handlers, in the order they ran

vars == <<text, value, editorMounted, appMounted, queue, inflight, preview,
          notifications, status, edits, emitted, handled, updates, failed,
          applied, saves, mountOrder>>

\* The request number of the startup update (MainApp.on_mount); the update for
\* the k-th Changed message has request number k.
StartupReq == 0

\* preview.req before any render has been applied (Markdown("") of main.py:115).
NoReq == -1

\* -------------------------------------------------------------- EditorPane

\* EditorPane.Changed.__init__ (main.py:63-65): the value the message carries.
\* `arg` is the explicit argument (NoValue stands for None).
ChangedValue(senderValue, arg) == IF arg # NoValue THEN arg ELSE senderValue

\* The Changed message EditorPane.on_text_changed posts (main.py:84):
\* Changed(self, self.value).
ChangedMessage(n) == [id |-> n, value |-> ChangedValue(value, value)]

\* post_message: append to the message queue.
PostMessage(q, m) == Append(q, m)

Init ==
  /\ text = EmptyText
  /\ value = NoValue
  /\ editorMounted = FALSE
  /\ appMounted = FALSE
  /\ queue = <<>>
  /\ inflight = {}
  /\ preview = [req |-> NoReq, content |-> Render(EmptyText)]
  /\ notifications = <<>>
  /\ status = "running"
  /\ edits = <<>>
  /\ emitted = <<>>
  /\ handled = <<>>
  /\ updates = <<>>
  /\ failed = {}
  /\ applied = <<>>
  /\ saves = 0
  /\ mountOrder = <<>>

\* Variant of EditorPane.on_mount whose seeding posts a Changed message (as a
\* notifying setter would).
EditorPaneOnMountPosts ==
  /\ status = "running"
  /\ ~editorMounted
  /\ value' = DEFAULT_MARKDOWN
  /\ editorMounted' = TRUE
  /\ queue' = Append(queue, [id |-> Len(emitted) + 1, value |-> DEFAULT_MARKDOWN])
  /\ emitted' = Append(emitted, [id |-> Len(emitted) + 1, value |-> DEFAULT_MARKDOWN])
  /\ mountOrder' = Append(mountOrder, "EditorPane")
  /\ UNCHANGED <<text, appMounted, inflight, preview, notifications,
                 status, edits, handled, updates, failed, applied, saves>>

\* EditorPane.on_mount (main.py:67-70): self.value = DEFAULT_MARKDOWN; focus.
\* Posts no message.
EditorPaneOnMount ==
  /\ status = "running"
  /\ ~editorMounted
  /\ value' = DEFAULT_MARKDOWN
  /\ editorMounted' = TRUE
  /\ mountOrder' = Append(mountOrder, "EditorPane")
  /\ UNCHANGED <<text, appMounted, queue, inflight, preview, notifications,
                 status, edits, emitted, handled, updates, failed, applied, saves>>

\* Variant of EditorPane.action_save that also reloads the editor from
\* self.value.
ActionSaveReloads ==
  /\ status = "running"
  /\ editorMounted
  /\ saves < MaxSaves
  /\ notifications' = Append(notifications, SaveNotification)
  /\ saves' = saves + 1
  /\ text' = value
  /\ UNCHANGED <<value, editorMounted, appMounted, queue, inflight,
                 preview, status, edits, emitted, handled, updates, failed,
                 applied, mountOrder>>

\* EditorPane.action_save (main.py:72-74): one notification, nothing else.
ActionSave ==
  /\ status = "running"
  /\ editorMounted
  /\ saves < MaxSaves
  /\ notifications' = Append(notifications, SaveNotification)
  /\ saves' = saves + 1
  /\ UNCHANGED <<text, value, editorMounted, appMounted, queue, inflight,
                 preview, status, edits, emitted, handled, updates, failed,
                 applied, mountOrder>>

\* Variant of the edit that is accepted only when no render is in flight (an
\* update that blocks the event loop until the render is done).
UserEditWaitsForRender ==
  /\ status = "running"
  /\ editorMounted /\ appMounted
  /\ inflight = {}
  /\ Len(edits) < MaxEdits
  /\ \E d \in Docs \ {text} :
       /\ text' = d
       /\ edits' = Append(edits, d)
  /\ queue' = PostMessage(queue, ChangedMessage(Len(emitted) + 1))
  /\ emitted' = Append(emitted, ChangedMessage(Len(emitted) + 1))
  /\ UNCHANGED <<value, editorMounted, appMounted, inflight, preview,
                 notifications, status, handled, updates, failed, applied, saves,
                 mountOrder>>

\* A user edit of the TextArea followed by EditorPane.on_text_changed
\* (main.py:76-84): the content becomes d, and one Changed message carrying
\* self.value is posted.
UserEdit ==
  /\ status = "running"
  /\ editorMounted /\ appMounted
  /\ Len(edits) < MaxEdits
  /\ \E d \in Docs \ {text} :
       /\ text' = d
       /\ edits' = Append(edits, d)
  /\ queue' = PostMessage(queue, ChangedMessage(Len(emitted) + 1))
  /\ emitted' = Append(emitted, ChangedMessage(Len(emitted) + 1))
  /\ UNCHANGED <<value, editorMounted, appMounted, inflight, preview,
                 notifications, status, handled, updates, failed, applied, saves,
                 mountOrder>>

\* -------------------------------------------------------------- ViewerPane

\* ViewerPane.update_content (main.py:121-124): self.preview.update(new_text),
\* not awaited: the render of new_text is started and completes later.
UpdateContent(req, new_text) ==
  /\ inflight' = inflight \cup {[req |-> req, doc |-> new_text]}
  /\ updates' = Append(updates, [req |-> req, doc |-> new_text])

\* The same call when Markdown.update raises: nothing in main.py catches the
\* exception, which leaves the calling handler.
UpdateContentRaises(req, new_text) ==
  /\ updates' = Append(updates, [req |-> req, doc |-> new_text])
  /\ failed' = failed \cup {req}
  /\ status' = "crashed"
  /\ UNCHANGED inflight

\* The newest update request MainApp has made so far.
NewestReq == IF updates = <<>> THEN NoReq ELSE updates[Len(updates)].req

\* Variant of the completion in which the preview writes the rendered
\* document's source back into the editor.
RenderCompleteWritesBack ==
  /\ status = "running"
  /\ \E j \in inflight :
       /\ inflight' = inflight \ {j}
       /\ preview' = [req |-> j.req, content |-> Render(j.doc)]
       /\ applied' = Append(applied, [req |-> j.req, newest |-> NewestReq])
       /\ text' = j.doc
  /\ UNCHANGED <<value, editorMounted, appMounted, queue, notifications,
                 status, edits, emitted, handled, updates, failed, saves,
                 mountOrder>>

\* Variant of the completion that renders what the editor holds when the
\* render completes, not the text the update was called with.
RenderCompleteShowsEditor ==
  /\ status = "running"
  /\ \E j \in inflight :
       /\ inflight' = inflight \ {j}
       /\ preview' = [req |-> j.req, content |-> Render(text)]
       /\ applied' = Append(applied, [req |-> j.req, newest |-> NewestReq])
  /\ UNCHANGED <<text, value, editorMounted, appMounted, queue, notifications,
                 status, edits, emitted, handled, updates, failed, saves,
                 mountOrder>>

\* A render started at main.py:124 completes: the Markdown widget now shows
\* it.  main.py compares nothing before the display is replaced.
RenderComplete ==
  /\ status = "running"
  /\ \E j \in inflight :
       /\ inflight' = inflight \ {j}
       /\ preview' = [req |-> j.req, content |-> Render(j.doc)]
       /\ applied' = Append(applied, [req |-> j.req, newest |-> NewestReq])
  /\ UNCHANGED <<text, value, editorMounted, appMounted, queue, notifications,
                 status, edits, emitted, handled, updates, failed, saves,
                 mountOrder>>

\* A render started at main.py:124 fails after the call returned: main.py
\* holds no reference to it, nothing is displayed and nothing is reported.
RenderFail ==
  /\ status = "running"
  /\ Cardinality(failed) < MaxFailures
  /\ \E j \in inflight :
       /\ inflight' = inflight \ {j}
       /\ failed' = failed \cup {j.req}
  /\ UNCHANGED <<text, value, editorMounted, appMounted, queue, preview,
                 notifications, status, edits, emitted, handled, updates,
                 applied, saves, mountOrder>>

\* ----------------------------------------------------------------- MainApp

\* Variant of MainApp.on_mount that reads the editor's value attribute
\* instead of the class constant.
MainAppOnMountReadsValue ==
  /\ status = "running"
  /\ ~appMounted
  /\ appMounted' = TRUE
  /\ UpdateContent(StartupReq, value)
  /\ mountOrder' = Append(mountOrder, "MainApp")
  /\ UNCHANGED <<text, value, editorMounted, queue, preview, notifications,
                 status, edits, emitted, handled, failed, applied, saves>>

\* MainApp.on_mount (main.py:185-190): update the preview with the class
\* constant DEFAULT_MARKDOWN (not with the editor's content or value).
MainAppOnMount ==
  /\ status = "running"
  /\ ~appMounted
  /\ appMounted' = TRUE
  /\ UpdateContent(StartupReq, DEFAULT_MARKDOWN)
  /\ mountOrder' = Append(mountOrder, "MainApp")
  /\ UNCHANGED <<text, value, editorMounted, queue, preview, notifications,
                 status, edits, emitted, handled, failed, applied, saves>>

\* MainApp.on_mount when the render raises inside the call.
MainAppOnMountRaises ==
  /\ status = "running"
  /\ ~appMounted
  /\ Cardinality(failed) < MaxFailures
  /\ appMounted' = TRUE
  /\ UpdateContentRaises(StartupReq, DEFAULT_MARKDOWN)
  /\ mountOrder' = Append(mountOrder, "MainApp")
  /\ UNCHANGED <<text, value, editorMounted, queue, preview, notifications,
                 edits, emitted, handled, applied, saves>>

\* Variant of the dispatch that takes the newest message first.
NextMessageNewest(q) == q[Len(q)]

\* The message MainApp handles next: the oldest one posted.
NextMessage(q) == Head(q)

\* The queue after that message has been taken.
RestMessages(q) == Tail(q)

\* Variant of the handler that renders the editor's current content instead
\* of the value the message carries.
OnEditorPaneChangedReadsEditor ==
  /\ status = "running"
  /\ appMounted
  /\ queue # <<>>
  /\ LET event == NextMessage(queue) IN
       /\ handled' = Append(handled, event)
       /\ UpdateContent(event.id, text)
  /\ queue' = RestMessages(queue)
  /\ UNCHANGED <<text, value, editorMounted, appMounted, preview,
                 notifications, status, edits, emitted, failed, applied, saves,
                 mountOrder>>

\* Variant of the handler with a recency condition: it updates the preview
\* only when no newer message is already queued.
OnEditorPaneChangedSkipsStale ==
  /\ status = "running"
  /\ appMounted
  /\ queue # <<>>
  /\ LET event == NextMessage(queue) IN
       /\ handled' = Append(handled, event)
       /\ IF Len(queue) = 1
            THEN UpdateContent(event.id, event.value)
            ELSE UNCHANGED <<inflight, updates>>
  /\ queue' = RestMessages(queue)
  /\ UNCHANGED <<text, value, editorMounted, appMounted, preview,
                 notifications, status, edits, emitted, failed, applied, saves,
                 mountOrder>>

\* MainApp.on_editor_pane_changed (main.py:192-195):
\* viewer.update_content(event.value), unconditionally.
OnEditorPaneChanged ==
  /\ status = "running"
  /\ appMounted
  /\ queue # <<>>
  /\ LET event == NextMessage(queue) IN
       /\ handled' = Append(handled, event)
       /\ UpdateContent(event.id, event.value)
  /\ queue' = RestMessages(queue)
  /\ UNCHANGED <<text, value, editorMounted, appMounted, preview,
                 notifications, status, edits, emitted, failed, applied, saves,
                 mountOrder>>

\* The same handler when the render raises inside the call.
OnEditorPaneChangedRaises ==
  /\ status = "running"
  /\ appMounted
  /\ queue # <<>>
  /\ Cardinality(failed) < MaxFailures
  /\ LET event == NextMessage(queue) IN
       /\ handled' = Append(handled, event)
       /\ UpdateContentRaises(event.id, event.value)
  /\ queue' = RestMessages(queue)
  /\ UNCHANGED <<text, value, editorMounted, appMounted, preview,
                 notifications, edits, emitted, applied, saves, mountOrder>>

\* The user quits (the quit binding every App has): app.run() returns
\* (main.py:204-205).
Quit ==
  /\ status = "running"
  /\ status' = "quit"
  /\ UNCHANGED <<text, value, editorMounted, appMounted, queue, inflight,
                 preview, notifications, edits, emitted, handled, updates,
                 failed, applied, saves, mountOrder>>

Next ==
  \/ EditorPaneOnMount
  \/ MainAppOnMount
  \/ MainAppOnMountRaises
  \/ ActionSave
  \/ UserEdit
  \/ OnEditorPaneChanged
  \/ OnEditorPaneChangedRaises
  \/ RenderComplete
  \/ RenderFail
  \/ Quit

Spec == Init /\ [][Next]_vars

\* ------------------------------------------------------------------ claims

\* Everything posted has been handled, every render started has completed,
\* and no render has failed.
Quiescent ==
  /\ status = "running"
  /\ editorMounted /\ appMounted
  /\ queue = <<>>
  /\ inflight = {}
  /\ failed = {}

\* The position in `applied` of the render of request r (0: not applied).
AppliedPos(r) ==
  IF \E i \in DOMAIN applied : applied[i].req = r
    THEN CHOOSE i \in DOMAIN applied : applied[i].req = r
    ELSE 0

\* C1 (eventual consistency): once at least one user edit was made, every
\* posted Changed message has been handled and every render has completed,
\* the preview displays the render of the document of the last edit.
C1Claim ==
  (Quiescent /\ edits # <<>>) =>
      preview.content = Render(edits[Len(edits)])

\* C2 (out-of-order completion safety): when Changed messages for D1 and then
\* D2 (the last one) were handled and the render of D1 completed after the
\* render of D2 (the startup render having completed before both), the
\* preview finally displayed is the render made for D2.
C2Claim ==
  \A d1, d2 \in DOMAIN handled :
    ( /\ Quiescent
      /\ d1 < d2 /\ d2 = Len(handled)
      /\ AppliedPos(StartupReq) = 1
      /\ AppliedPos(d1) > AppliedPos(d2) )
    => preview.req = handled[d2].id

\* C3 (supersession check on every apply): every render of a Changed
\* message's snapshot that was applied to the preview was, when it completed,
\* the render of the most recently observed snapshot.
C3Claim ==
  \A i \in DOMAIN applied :
    applied[i].req # StartupReq => applied[i].req = applied[i].newest

\* C4 (no regression on failure): when the render for a Changed message fails
\* after an earlier document was rendered and displayed, update was not
\* called for the failing document, the failure has been handled (the
\* application is still running) and the preview still displays the earlier
\* render.
C4Claim ==
  \A r \in failed :
    ( /\ r # StartupReq
      /\ applied # <<>>
      /\ \A i \in DOMAIN applied : applied[i].req < r )
    => /\ \A u \in DOMAIN updates : updates[u].req # r
       /\ status = "running"
       /\ preview.req = applied[Len(applied)].req

\* Startup is over: both on_mount handlers have run, the startup render has
\* completed and been displayed, and no user edit has been made yet.
StartupDone ==
  /\ status = "running"
  /\ editorMounted /\ appMounted
  /\ edits = <<>>
  /\ AppliedPos(StartupReq) # 0

\* C5 (startup): after launch and before any user edit, the editor holds the
\* default document and the preview displays the render of that document.
C5Claim ==
  StartupDone =>
    /\ text = DEFAULT_MARKDOWN
    /\ preview.content = Render(DEFAULT_MARKDOWN)

\* C6 (save is a no-op on data): every invocation of the save action leaves
\* the editor's content and the displayed preview unchanged, posts no Changed
\* message, and adds exactly one confirmation notification.
C6SaveNoOp ==
  [][ saves' # saves =>
        /\ text' = text
        /\ value' = value
        /\ preview' = preview
        /\ emitted' = emitted
        /\ queue' = queue
        /\ notifications' = Append(notifications, SaveNotification) ]_vars

\* Saves were invoked on an edited document, with renders still in flight.
C6Witness ==
  /\ saves = MaxSaves
  /\ Len(notifications) = MaxSaves
  /\ text \notin {EmptyText, DEFAULT_MARKDOWN}
  /\ inflight # {}

\* C7 (edit notification carries the post-edit document): every user edit
\* posts exactly one Changed message, and the value it carries is the
\* editor's content right after that edit.
C7Claim ==
  /\ Len(emitted) = Len(edits)
  /\ \A i \in DOMAIN emitted : emitted[i].value = edits[i]

C9Unidirectional ==
  [][ /\ ( \/ handled' # handled
           \/ updates' # updates
           \/ preview' # preview
           \/ applied' # applied
           \/ failed' # failed
           \/ inflight' # inflight )
         => /\ text' = text
            /\ value' = value
            /\ edits' = edits
            /\ emitted' = emitted
            /\ Len(queue') <= Len(queue)
      /\ text' # text => edits' = Append(edits, text')
      /\ value' # value => (~editorMounted /\ value' = DEFAULT_MARKDOWN) ]_vars

\* The render made for a Changed message is displayed while the editor still
\* holds the user's last edit, a document other than the one displayed.
C9Witness ==
  /\ preview.req >= 1
  /\ edits # <<>>
  /\ text = edits[Len(edits)]
  /\ preview.content # Render(text)

\* C10 (silent programmatic set): the seeding at mount posts no Changed
\* message: as many messages were posted as user edits were made, and before
\* the first edit nothing is queued and only the startup update was requested.
C10SilentSeed ==
  /\ Len(emitted) = Len(edits)
  /\ edits = <<>> =>
       /\ queue = <<>>
       /\ \A u \in DOMAIN updates : updates[u].req = StartupReq

\* The editor was seeded and two user edits have been made since.
C10Witness ==
  /\ editorMounted
  /\ value = DEFAULT_MARKDOWN
  /\ Len(edits) = 2
  /\ Len(emitted) = 2

\* C11 (render errors are never fatal): when the render of a Changed
\* message's snapshot has failed, the application has not stopped on an
\* unhandled exception: it is still running or was ended by the user's quit.
C11Claim ==
  (\E r \in failed : r # StartupReq) => status \in {"running", "quit"}

UpdateDoc(r) ==
  LET u == CHOOSE u \in DOMAIN updates : updates[u].req = r IN updates[u].doc

C15Claim ==
  (handled # <<>> /\ queue # <<>> /\ status # "quit") =>
    ENABLED OnEditorPaneChanged

\* C16 (ChangeEvent is an immutable snapshot): every Changed message is
\* handled with the value it was posted with, whatever edits were made in
\* between, the handler renders that value, and that value is the document
\* as of the time the message was posted.
C16Claim ==
  \A k \in DOMAIN handled :
    /\ handled[k] = emitted[k]
    /\ UpdateDoc(handled[k].id) = handled[k].value
    /\ handled[k].value = edits[k]

\* C17 (one unconditional update per handled message): the calls of
\* update_content are the startup call with DEFAULT_MARKDOWN followed by one
\* call per handled Changed message, in order, each with that message's
\* value: their number is the number of handled messages plus one.
C17UnconditionalUpdate ==
  /\ Len(updates) = Len(handled) + (IF appMounted THEN 1 ELSE 0)
  /\ appMounted => updates[1] = [req |-> StartupReq, doc |-> DEFAULT_MARKDOWN]
  /\ \A k \in DOMAIN handled :
       updates[k + 1] = [req |-> handled[k].id, doc |-> handled[k].value]

\* Three messages were handled before any render completed: four updates
\* were requested and all four renders are in flight.
C17Witness ==
  /\ Len(handled) = 3
  /\ Len(updates) = 4
  /\ failed = {}
  /\ Cardinality(inflight) = 4

\* C18 (startup does not depend on mount order): once EditorPane.on_mount
\* and MainApp.on_mount have both run, in either order, the editor's value
\* and the text given to the preview by the startup update are both
\* DEFAULT_MARKDOWN.
C18MountOrderIndependent ==
  (editorMounted /\ appMounted) =>
    /\ value = DEFAULT_MARKDOWN
    /\ updates[1] = [req |-> StartupReq, doc |-> DEFAULT_MARKDOWN]

\* MainApp.on_mount ran before EditorPane.on_mount, and both have run.
C18Witness ==
  /\ mountOrder = <<"MainApp", "EditorPane">>
  /\ value = DEFAULT_MARKDOWN
  /\ updates[1].doc = DEFAULT_MARKDOWN

\* EditorPane.on_mount ran before MainApp.on_mount, and both have run.
C18WitnessEditorFirst ==
  /\ mountOrder = <<"EditorPane", "MainApp">>
  /\ value = DEFAULT_MARKDOWN
  /\ updates[1].doc = DEFAULT_MARKDOWN

====
